---- MODULE Spec2Model ----
(***************************************************************************)
(* Model of src/main.go: the "second lowest cost Silver plan" pipeline.    *)
(*                                                                         *)
(* src/main.go holds two revisions of the program.  Lines 196-397 are the  *)
(* revision in which parseSlcsp returns the target zips as a slice and     *)
(* main walks that slice for its output; it is modelled by Spec.  Lines    *)
(* 1-194 are the revision in which parseSlcsp returns the map itself and   *)
(* main ranges over the map for its output; it is modelled by SpecMap.     *)
(* concatRateArea, parseZips and parsePlans are the same text in both.     *)
(*                                                                         *)
(* The three csv files are read row by row; the rows a reader returns are  *)
(* drawn from small sets, and the rows consumed so far are kept in         *)
(* slcspRows, zipsRows and plansRows so that the output can be compared    *)
(* with the input.  A rate is a number of eighths of a dollar (exact in a  *)
(* float64), so that "%.2f" has to round.                                  *)
(***************************************************************************)
EXTENDS Integers, Sequences, FiniteSets, TLC

VARIABLES pc, zips, zipData, out, err, slcspRows, zipsRows, plansRows, probe

vars == <<pc, zips, zipData, out, err, slcspRows, zipsRows, plansRows, probe>>

\* Bounds: the number of data rows of each csv file.
MaxSlcspRows == 2
MaxZipsRows == 2
MaxPlansRows == 3

\* The metal level parsePlans compares with.
TargetTier == "Silver"

\* Field values of the input rows.
ZipCodes == {"64148", "36749"}
RateVals == {1, 3}

\* A row of zips.csv; county_code and name are never read by parseZips.
ZipsRowSet == [zipcode : ZipCodes, state : {"AL"}, rate_area : {"7", "9"}]

\* The rate field of a row of plans.csv: text that is a decimal number (of
\* so many eighths of a dollar) or text that is not.
NumField(n) == [valid |-> TRUE, eighths |-> n]
BadField == [valid |-> FALSE, eighths |-> 0]

PlanRow(area, metal, rate) ==
    [state |-> area[1], metal_level |-> metal, rate |-> rate, rate_area |-> area[2]]

\* Rows of plans.csv whose rate parses.
PlansRowSet ==
    {PlanRow(<<"AL", "7">>, "Silver", NumField(r)) : r \in RateVals}
    \cup {PlanRow(<<"AL", "9">>, "Silver", NumField(3)),
          PlanRow(<<"", "">>, "Silver", NumField(1)),
          PlanRow(<<"AL", "7">>, "Bronze", NumField(1))}

\* Rows of plans.csv whose rate does not parse.
BadPlansRowSet ==
    {PlanRow(<<"AL", "7">>, m, BadField) : m \in {"Silver", "Bronze"}}

\* RateData{}: the zero value.
RateData == [RateArea |-> "", Rates |-> <<>>]

\* concatRateArea with the separator left out of the format.
concatRateAreaNoSeparator(state, code) == state \o code

\* fmt.Sprintf("%s %s", state, code)
concatRateArea(state, code) == state \o " " \o code

\* strconv.ParseFloat(record[3], 64)
ParseFloat(f) == [err |-> ~f.valid, val |-> f.eighths]

\* The error value of a stage that returned without error.
nil == "nil"

\* main going on to the next stage whatever the stage returned.
AfterStageUnchecked(e, next) == next

\* main: "if err != nil { log.Fatal(...) }" after a stage; log.Fatal ends
\* the process, otherwise main goes on to `next`.
AfterStage(e, next) == IF e # nil THEN "fatal" ELSE next

Range(s) == {s[i] : i \in 1..Len(s)}

\* parseZips storing the rating area of every row, target zip or not.
parseZipsRecordAnyZip(zd, record) ==
    [k \in DOMAIN zd \cup {record.zipcode} |->
        IF k = record.zipcode
        THEN [RateArea |-> concatRateArea(record.state, record.rate_area),
              Rates |-> IF k \in DOMAIN zd THEN zd[k].Rates ELSE <<>>]
        ELSE zd[k]]

\* parseZips, loop body: the row's rating area is stored into the record of
\* the row's zip when the zip is a key of the map.
parseZipsRecord(zd, record) ==
    IF record.zipcode \in DOMAIN zd
    THEN [zd EXCEPT ![record.zipcode].RateArea =
                        concatRateArea(record.state, record.rate_area)]
    ELSE zd

\* The condition of parsePlans' inner loop without the metal level.
planMatchesAnyTier(rateArea, rateData, record) ==
    rateArea = rateData.RateArea

\* parsePlans, the condition of the inner loop.
planMatches(rateArea, rateData, record) ==
    rateArea = rateData.RateArea /\ record.metal_level = TargetTier

\* parsePlans, loop body after the rate parsed: the rate is appended to
\* every record the row matches.
parsePlansRecord(zd, record, rate) ==
    LET rateArea == concatRateArea(record.state, record.rate_area)
    IN [z \in DOMAIN zd |->
          IF planMatches(rateArea, zd[z], record)
          THEN [zd[z] EXCEPT !.Rates = Append(@, rate)]
          ELSE zd[z]]

\* sort.Float64s: ascending, duplicates kept.
RECURSIVE Insert(_, _)
Insert(s, x) ==
    IF s = <<>> THEN <<x>>
    ELSE IF x <= Head(s) THEN <<x>> \o s
    ELSE <<Head(s)>> \o Insert(Tail(s), x)

RECURSIVE SortFloat64s(_)
SortFloat64s(s) ==
    IF s = <<>> THEN <<>> ELSE Insert(SortFloat64s(Tail(s)), Head(s))

\* "%.2f" of a rate of r eighths of a dollar: the number of cents, rounded
\* to nearest with ties to even (r/8 dollars is 12.5 * r cents).
Format2(r) ==
    LET n == 25 * r
        q == n \div 2
    IN IF n % 2 = 0 THEN q
       ELSE IF q % 2 = 0 THEN q ELSE q + 1

\* main, output loop: whether a record has a second lowest rate.
hasSecondLowest(rateData) == ~(Len(rateData.Rates) < 2)

\* The second lowest distinct rate, where there is one.
secondLowestDistinct(rates) ==
    LET s == SortFloat64s(rates)
        above == {i \in 1..Len(s) : s[i] > s[1]}
    IN IF above = {} THEN s[2]
       ELSE s[CHOOSE i \in above : \A j \in above : i <= j]

\* main, output loop: the rate printed, rateData.Rates[1] after the sort
\* (Go indexes from 0, TLA+ from 1).
secondLowest(rates) == SortFloat64s(rates)[2]

\* The output line with the lowest rate printed for a zip that has one rate.
outputLineFromOneRate(zip, rateData) ==
    IF Len(rateData.Rates) < 1
    THEN [zipcode |-> zip, rate |-> <<>>]
    ELSE IF Len(rateData.Rates) < 2
    THEN [zipcode |-> zip, rate |-> <<Format2(rateData.Rates[1])>>]
    ELSE [zipcode |-> zip,
          rate |-> <<Format2(SortFloat64s(rateData.Rates)[2])>>]

\* main, output loop body: the line printed for a zip.  The rate field is
\* <<>> for zip + "," and <<cents>> for "%s,%.2f".
outputLine(zip, rateData) ==
    IF hasSecondLowest(rateData)
    THEN [zipcode |-> zip, rate |-> <<Format2(secondLowest(rateData.Rates))>>]
    ELSE [zipcode |-> zip, rate |-> <<>>]

\* main, output loop body: sort.Float64s sorts the record's slice in place.
sortedInPlace(rateData) ==
    IF hasSecondLowest(rateData)
    THEN [rateData EXCEPT !.Rates = SortFloat64s(@)]
    ELSE rateData

Header == [zipcode |-> "zipcode", rate |-> <<"rate">>]

NoProbe == [applied |-> FALSE]

----
\* The revision of lines 196-397.

Init ==
    /\ pc = "openSlcsp"
    /\ zips = <<>>
    /\ zipData = <<>>
    /\ out = <<>>
    /\ err = nil
    /\ slcspRows = <<>>
    /\ zipsRows = <<>>
    /\ plansRows = <<>>
    /\ probe = NoProbe

\* A stage's os.Open and the read of the header row; either may fail, and
\* the stage then returns the error to main.
openFile(at, loop, next) ==
    /\ pc = at
    /\ \E e \in {nil, "open", "header"} :
          /\ err' = e
          /\ pc' = IF e = nil THEN loop ELSE AfterStage(e, next)
    /\ UNCHANGED <<zips, zipData, out, slcspRows, zipsRows, plansRows, probe>>

\* A stage's reader returns an error for a data row (wrong field count), and
\* the stage returns it to main.
readFails(at, next) ==
    /\ pc = at
    /\ err' = "fieldcount"
    /\ pc' = AfterStage(err', next)
    /\ UNCHANGED <<zips, zipData, out, slcspRows, zipsRows, plansRows, probe>>

parseSlcspOpen == openFile("openSlcsp", "readSlcsp", "makeZipData")

parseSlcspFail == readFails("readSlcsp", "makeZipData")

\* parseSlcsp, loop body: the zip is appended to the slice.
parseSlcspRow ==
    /\ pc = "readSlcsp"
    /\ Len(slcspRows) < MaxSlcspRows
    /\ \E z \in ZipCodes :
          /\ slcspRows' = Append(slcspRows, z)
          /\ zips' = Append(zips, z)
    /\ UNCHANGED <<pc, zipData, out, err, zipsRows, plansRows, probe>>

\* parseSlcsp at io.EOF.
parseSlcspEOF ==
    /\ pc = "readSlcsp"
    /\ pc' = AfterStage(err, "makeZipData")
    /\ UNCHANGED <<zips, zipData, out, err, slcspRows, zipsRows, plansRows, probe>>

\* main, lines 367-371: the map built from the slice, a fresh record per zip.
makeZipData ==
    /\ pc = "makeZipData"
    /\ zipData' = [z \in Range(zips) |-> RateData]
    /\ pc' = "openZips"
    /\ UNCHANGED <<zips, out, err, slcspRows, zipsRows, plansRows, probe>>

parseZipsOpen == openFile("openZips", "readZips", "openPlans")

parseZipsFail == readFails("readZips", "openPlans")

parseZipsRow ==
    /\ pc = "readZips"
    /\ Len(zipsRows) < MaxZipsRows
    /\ \E record \in ZipsRowSet :
          /\ zipsRows' = Append(zipsRows, record)
          /\ zipData' = parseZipsRecord(zipData, record)
    /\ UNCHANGED <<pc, zips, out, err, slcspRows, plansRows, probe>>

parseZipsEOF ==
    /\ pc = "readZips"
    /\ pc' = AfterStage(err, "openPlans")
    /\ UNCHANGED <<zips, zipData, out, err, slcspRows, zipsRows, plansRows, probe>>

parsePlansOpen == openFile("openPlans", "readPlans", "output")

parsePlansFail == readFails("readPlans", "output")

\* parsePlans, loop body for a row whose rate parses.
parsePlansRow ==
    /\ pc = "readPlans"
    /\ Len(plansRows) < MaxPlansRows
    /\ \E record \in PlansRowSet :
          /\ ~ParseFloat(record.rate).err
          /\ plansRows' = Append(plansRows, record)
          /\ zipData' = parsePlansRecord(zipData, record, ParseFloat(record.rate).val)
    /\ UNCHANGED <<pc, zips, out, err, slcspRows, zipsRows, probe>>

\* parsePlans, loop body for a row whose rate does not parse: the error is
\* returned before the inner loop.
parsePlansBadRate ==
    /\ pc = "readPlans"
    /\ Len(plansRows) < MaxPlansRows
    /\ \E record \in BadPlansRowSet :
          /\ ParseFloat(record.rate).err
          /\ plansRows' = Append(plansRows, record)
    /\ err' = "rate"
    /\ pc' = AfterStage(err', "output")
    /\ UNCHANGED <<zips, zipData, out, slcspRows, zipsRows, probe>>

parsePlansEOF ==
    /\ pc = "readPlans"
    /\ pc' = AfterStage(err, "output")
    /\ UNCHANGED <<zips, zipData, out, err, slcspRows, zipsRows, plansRows, probe>>

\* main, lines 386-396: the header, then one line per element of the slice.
output ==
    /\ pc = "output"
    /\ out' = <<Header>> \o [i \in 1..Len(zips) |-> outputLine(zips[i], zipData[zips[i]])]
    /\ zipData' = [z \in DOMAIN zipData |-> sortedInPlace(zipData[z])]
    /\ pc' = "done"
    /\ UNCHANGED <<zips, err, slcspRows, zipsRows, plansRows, probe>>

Next ==
    \/ parseSlcspOpen \/ parseSlcspFail \/ parseSlcspRow \/ parseSlcspEOF
    \/ makeZipData
    \/ parseZipsOpen \/ parseZipsFail \/ parseZipsRow \/ parseZipsEOF
    \/ parsePlansOpen \/ parsePlansFail \/ parsePlansRow \/ parsePlansBadRate
    \/ parsePlansEOF
    \/ output

Spec == Init /\ [][Next]_vars

----
\* The revision of lines 1-194: parseSlcsp fills the map, main ranges over it.

\* parseSlcsp, loop body: zips[record[0]] = &RateData{}.
parseSlcspRowMap ==
    /\ pc = "readSlcsp"
    /\ Len(slcspRows) < MaxSlcspRows
    /\ \E z \in ZipCodes :
          /\ slcspRows' = Append(slcspRows, z)
          /\ zipData' = [k \in DOMAIN zipData \cup {z} |->
                            IF k = z THEN RateData ELSE zipData[k]]
    /\ UNCHANGED <<pc, zips, out, err, zipsRows, plansRows, probe>>

parseSlcspOpenMap == openFile("openSlcsp", "readSlcsp", "openZips")

parseSlcspFailMap == readFails("readSlcsp", "openZips")

parseSlcspEOFMap ==
    /\ pc = "readSlcsp"
    /\ pc' = AfterStage(err, "openZips")
    /\ UNCHANGED <<zips, zipData, out, err, slcspRows, zipsRows, plansRows, probe>>

\* The sequences that hold every element of S once.
Orders(S) ==
    {f \in [1..Cardinality(S) -> S] : \A x \in S : \E i \in DOMAIN f : f[i] = x}

\* main, lines 183-193: the header, then one line per key of the map, in
\* the order the range over the map yields, which Go leaves unspecified.
outputMap ==
    /\ pc = "output"
    /\ \E order \in Orders(DOMAIN zipData) :
          out' = <<Header>> \o [i \in DOMAIN order |->
                                   outputLine(order[i], zipData[order[i]])]
    /\ zipData' = [z \in DOMAIN zipData |-> sortedInPlace(zipData[z])]
    /\ pc' = "done"
    /\ UNCHANGED <<zips, err, slcspRows, zipsRows, plansRows, probe>>

NextMap ==
    \/ parseSlcspOpenMap \/ parseSlcspFailMap \/ parseSlcspRowMap \/ parseSlcspEOFMap
    \/ parseZipsOpen \/ parseZipsFail \/ parseZipsRow \/ parseZipsEOF
    \/ parsePlansOpen \/ parsePlansFail \/ parsePlansRow \/ parsePlansBadRate
    \/ parsePlansEOF
    \/ outputMap

SpecMap == Init /\ [][NextMap]_vars

----
\* concatRateArea on its own, applied to two (state, code) pairs of csv fields.
\* encoding/csv keeps a field's spaces (TrimLeadingSpace is not set).

FieldVals == {"AL", "AL ", "7", " 7"}

InitConcat ==
    /\ pc = "concat"
    /\ zips = <<>>
    /\ zipData = <<>>
    /\ out = <<>>
    /\ err = nil
    /\ slcspRows = <<>>
    /\ zipsRows = <<>>
    /\ plansRows = <<>>
    /\ probe \in [applied : {FALSE}, state1 : FieldVals, code1 : FieldVals,
                                   state2 : FieldVals, code2 : FieldVals]

applyConcat ==
    /\ pc = "concat"
    /\ probe' = [applied |-> TRUE,
                 state1 |-> probe.state1, code1 |-> probe.code1,
                 state2 |-> probe.state2, code2 |-> probe.code2,
                 id1 |-> concatRateArea(probe.state1, probe.code1),
                 id2 |-> concatRateArea(probe.state2, probe.code2)]
    /\ pc' = "done"
    /\ UNCHANGED <<zips, zipData, out, err, slcspRows, zipsRows, plansRows>>

NextConcat == applyConcat

SpecConcat == InitConcat /\ [][NextConcat]_vars

----
\* What the claims speak of, stated over the rows the readers returned.

\* The (state, rate_area) pairs of the rows of zips.csv for zip z.
AreasSeen(z) ==
    {<<zipsRows[i].state, zipsRows[i].rate_area>> :
        i \in {j \in 1..Len(zipsRows) : zipsRows[j].zipcode = z}}

\* The plan rows whose rate parsed, with metal level Silver and the
\* identifier of zip z's recorded rating area.
isMatchingPlan(z, row) ==
    /\ row.rate.valid
    /\ row.metal_level = "Silver"
    /\ concatRateArea(row.state, row.rate_area) = zipData[z].RateArea

MatchingPlans(z) == SelectSeq(plansRows, LAMBDA row : isMatchingPlan(z, row))

Count(s, v) == Cardinality({i \in 1..Len(s) : s[i] = v})

\* v stands at index 1 (from 0) of s sorted ascending with duplicates kept:
\* at most one entry of s is below v and at least two are not above it.
isSecondOfSorted(v, s) ==
    /\ \E i \in 1..Len(s) : s[i] = v
    /\ Cardinality({i \in 1..Len(s) : s[i] < v}) <= 1
    /\ Cardinality({i \in 1..Len(s) : s[i] <= v}) >= 2

\* The output line of the i-th row of the target list (the header is first).
LineOf(i) == out[i + 1]

\* C1: once the run is done, every target zip whose zips.csv rows carry two
\* or more distinct (state, rate_area) pairs has an empty rate field.
ambiguousZipIsBlank ==
    pc = "done" =>
        \A i \in 1..Len(slcspRows) :
            Cardinality(AreasSeen(slcspRows[i])) >= 2 => LineOf(i).rate = <<>>

\* C2: once the run is done, every target zip with at least two matching
\* Silver rates gets the rate at index 1 of its sorted collection, printed
\* with two decimals; ties are kept.
secondLowestEmitted ==
    pc = "done" =>
        \A i \in 1..Len(slcspRows) :
            LET z == slcspRows[i]
                m == MatchingPlans(z)
            IN Len(m) >= 2 =>
                 \E k \in 1..Len(m) :
                    /\ isSecondOfSorted(m[k].rate.eighths,
                                        [j \in 1..Len(m) |-> m[j].rate.eighths])
                    /\ isSecondOfSorted(m[k].rate.eighths, zipData[z].Rates)
                    /\ LineOf(i).rate = <<Format2(m[k].rate.eighths)>>

\* C2, witness: a zip with rates 1, 1, 3 was printed with the tied value
\* (0.125 dollars, "0.12"), not with the next distinct one.
secondLowestTieWitness ==
    /\ pc = "done"
    /\ \E i \in 1..Len(slcspRows) :
          /\ zipData[slcspRows[i]].Rates = <<1, 1, 3>>
          /\ LineOf(i).rate = <<12>>

\* C3: once the run is done, the output has the header and then one line
\* per row of the target list, in the target list's order.
targetOrderKept ==
    pc = "done" =>
        /\ Len(out) = Len(slcspRows) + 1
        /\ \A i \in 1..Len(slcspRows) : LineOf(i).zipcode = slcspRows[i]

\* C4: once the run is done, every target zip with fewer than two matching
\* Silver rates, or fewer than two entries in its collection, has an empty
\* rate field.
fewerThanTwoIsBlank ==
    pc = "done" =>
        \A i \in 1..Len(slcspRows) :
            LET z == slcspRows[i]
            IN (Len(MatchingPlans(z)) < 2 \/ Len(zipData[z].Rates) < 2)
                  => LineOf(i).rate = <<>>

\* C4, witness: a zip with exactly one matching Silver rate was printed
\* with an empty rate field.
oneRateWitness ==
    /\ pc = "done"
    /\ \E i \in 1..Len(slcspRows) :
          /\ Len(MatchingPlans(slcspRows[i])) = 1
          /\ Len(zipData[slcspRows[i]].Rates) = 1
          /\ LineOf(i).rate = <<>>

\* C5: a target zip with no row in zips.csv never gets a rate appended,
\* and its rate field is empty once the run is done.
unmappedZipIsBlank ==
    /\ \A z \in DOMAIN zipData :
          AreasSeen(z) = {} => zipData[z].RateArea = "" /\ zipData[z].Rates = <<>>
    /\ pc = "done" =>
          \A i \in 1..Len(slcspRows) :
              AreasSeen(slcspRows[i]) = {} => LineOf(i).rate = <<>>

\* C5, witness: the run is done, a target zip had no row in zips.csv, and
\* plans.csv held two Silver rows with empty state and empty rate area.
unmappedZipWitness ==
    /\ pc = "done"
    /\ \E i \in 1..Len(slcspRows) :
          /\ AreasSeen(slcspRows[i]) = {}
          /\ LineOf(i).rate = <<>>
    /\ Cardinality({j \in 1..Len(plansRows) :
                      /\ plansRows[j].state = ""
                      /\ plansRows[j].rate_area = ""
                      /\ plansRows[j].metal_level = "Silver"}) >= 2

\* C6: after parsePlans has returned without error, the collection of every
\* target zip with at most one (state, rate_area) pair holds each rate as
\* often as the Silver plan rows of its recorded rating area do.
ratesAreMatchingSilverPlans ==
    pc \in {"output", "done"} =>
        \A z \in DOMAIN zipData :
            Cardinality(AreasSeen(z)) <= 1 =>
                LET m == MatchingPlans(z)
                IN /\ Len(zipData[z].Rates) = Len(m)
                   /\ \A v \in RateVals :
                         Count(zipData[z].Rates, v) =
                            Count([j \in 1..Len(m) |-> m[j].rate.eighths], v)
                   /\ AreasSeen(z) = {} => m = <<>>
                   /\ \A a \in AreasSeen(z) :
                         zipData[z].RateArea = concatRateArea(a[1], a[2])

\* C6, witness: two target zips share a rating area, both hold the rates of
\* two equally priced Silver plans, and a Bronze row of that area was read.
sharedAreaWitness ==
    /\ pc = "output"
    /\ \E z1 \in DOMAIN zipData, z2 \in DOMAIN zipData :
          /\ z1 # z2
          /\ AreasSeen(z1) = {<<"AL", "7">>}
          /\ AreasSeen(z2) = {<<"AL", "7">>}
          /\ zipData[z1].Rates = <<1, 1>>
          /\ zipData[z2].Rates = <<1, 1>>
    /\ \E j \in 1..Len(plansRows) :
          /\ plansRows[j].metal_level = "Bronze"
          /\ plansRows[j].state = "AL"
          /\ plansRows[j].rate_area = "7"

\* C7: a run in which a stage returned an error, or in which plans.csv
\* yielded a row whose rate is no number, prints nothing; whatever is
\* printed is printed after all three stages returned without error.
failedRunPrintsNothing ==
    /\ (err # nil \/ \E j \in 1..Len(plansRows) : ~plansRows[j].rate.valid)
          => out = <<>> /\ pc = "fatal"
    /\ out # <<>> => pc = "done" /\ err = nil

\* C7, witness: the run ended on a Bronze row whose rate is no number,
\* after a rate had been appended to a target zip, and nothing was printed.
badRateWitness ==
    /\ pc = "fatal"
    /\ err = "rate"
    /\ plansRows # <<>>
    /\ plansRows[Len(plansRows)].metal_level = "Bronze"
    /\ ~plansRows[Len(plansRows)].rate.valid
    /\ \E z \in DOMAIN zipData : zipData[z].Rates # <<>>
    /\ out = <<>>

\* The part of C8 that is a statement about one row of zips.csv: a recorded
\* rating area is never replaced by a different identifier, and a row with
\* the recorded identifier leaves the record as it is.
rateAreaKept(z) ==
    zipData[z].RateArea # "" => zipData'[z].RateArea = zipData[z].RateArea

\* C8: while parseZips reads its rows, the record of a target zip only
\* moves forward: a recorded rating area is never replaced.
resolverOnlyMovesForward ==
    [][\A z \in DOMAIN zipData : z \in DOMAIN zipData' => rateAreaKept(z)]_vars

\* C9: two (state, code) pairs with the same identifier are the same pair.
concatCollisionFree ==
    probe.applied =>
        (probe.id1 = probe.id2 =>
            probe.state1 = probe.state2 /\ probe.code1 = probe.code2)

\* After the map is built and while no stage has failed, its keys are the
\* zips of the target list.
keysAreTargets ==
    pc \in {"openZips", "readZips", "openPlans", "readPlans", "output", "done"}
        => DOMAIN zipData = Range(slcspRows)

\* A row of zips.csv for a zip that is no target changes no record, raises
\* no error and leaves the reader in its loop.
nonTargetRowIgnored ==
    (/\ zipsRows' # zipsRows
     /\ zipsRows'[Len(zipsRows')].zipcode \notin Range(slcspRows))
        => zipData' = zipData /\ err' = err /\ pc' = pc

\* C10: a row of zips.csv for a zip that is no target changes nothing, and
\* after parseZips and parsePlans the keys of the map are exactly the zips
\* the target list held.
onlyTargetsHaveRecords ==
    []keysAreTargets /\ [][nonTargetRowIgnored]_vars

\* C10, witness: the run is done, zips.csv held a row for a zip that is no
\* target, and the map holds the target zips only.
nonTargetRowWitness ==
    /\ pc = "done"
    /\ zipData # <<>>
    /\ DOMAIN zipData = Range(slcspRows)
    /\ \E j \in 1..Len(zipsRows) : zipsRows[j].zipcode \notin Range(slcspRows)

====
